---- MODULE Spec2Model ----
(***************************************************************************)
(* PeerPlanner.agents_run (peer_planner.py): the bounded planning ->       *)
(* executing -> expressing -> reviewing loop, its jump-step skipping, its  *)
(* acceptance test on the reviewer's score, the accumulated loopResults    *)
(* and the memory recorder add_peer_memory.                                *)
(*                                                                         *)
(* Python values are modelled as follows.  An optional value (a dict key   *)
(* that may be missing, a local that is still the empty dict(), a context  *)
(* slot not yet written) is a sequence of length 0 or 1: <<>> is           *)
(* None / dict(), <<v>> is the value v.  An OutputObject is a record with  *)
(* an identity `id` (every agent call and every default result is a fresh  *)
(* object) and the keys the planner reads: framework, output, score.       *)
(***************************************************************************)
EXTENDS Integers, Sequences, FiniteSets, TLC

\* ---------------------------------------------------------------- bounds
MaxRetry == 2

MaxOps == 4
MaxTokens == 3

\* ------------------------------------------------------ program constants
default_eval_threshold == 60
AcceptBound == 100

\* the fixed stage order of one pass (peer_planner.py:123-132)
Stages == <<"planning", "executing", "expressing", "reviewing">>
Roles == {Stages[k] : k \in 1..Len(Stages)}
StageIndex(s) == CHOOSE k \in 1..Len(Stages) : Stages[k] = s

\* the list literal `["planning", ..., stage]` of the membership tests
StagesUpTo(stage) == {Stages[k] : k \in 1..StageIndex(stage)}

\* ---------------------------------------------------- inputs of one run
Inputs == {"q1", "q2"}
Outputs == {"a", "b"}
ScoreVals == {0, 55, 60, 100}
Scores == {<<>>} \cup {<<v>> : v \in ScoreVals}
Thresholds == {default_eval_threshold, AcceptBound}
ExpertFrameworks == [context : BOOLEAN, selector : BOOLEAN]

VARIABLES
  planner_config,    \* retry_count, jump_step, eval_threshold, expert_framework
  agents,            \* the roles that have an agent handle
  agent_input,       \* the planner input dict: [input |-> ...]
  memory,            \* TRUE iff handle_memory returned a memory
  input_object,      \* the shared request context: slot -> optional value
  planning_result,   \* the four locals of agents_run
  executing_result,
  expressing_result,
  reviewing_result,
  loopResults,       \* the accumulated IterationRecords
  pass,              \* number of passes started (`_ + 1`)
  pc,                \* position in agents_run
  result,            \* <<>> until agents_run returns, then <<loopResults>>
  memory_calls,      \* the calls of memory.add, in order
  trace,             \* every agent call, slot write, event, append, add, return
  objs,              \* number of OutputObjects created so far
  role_config,       \* planner_config's value per role: <<>> unset, <<"">>, <<name>>
  sub_agents,        \* the dict generate_sub_agents builds: <<role, handle>> pairs
  rk,                \* number of roles generate_sub_agents has gone through
  messages,          \* ChatMemory.messages, the stored list
  llm,               \* TRUE iff ChatMemory.llm is set
  max_tokens,        \* ChatMemory.max_tokens
  mem_log            \* the add, get and clear calls made on the ChatMemory

vars == <<planner_config, agents, agent_input, memory, input_object,
          planning_result, executing_result, expressing_result,
          reviewing_result, loopResults, pass, pc, result, memory_calls,
          trace, objs, role_config, sub_agents, rk, messages, llm,
          max_tokens, mem_log>>

\* the resolver's state (invoke, generate_sub_agents)
resolver == <<role_config, sub_agents, rk>>

\* the ChatMemory object
chat_memory == <<messages, llm, max_tokens, mem_log>>

\* what agents_run is given and never assigns
config == <<planner_config, agents, agent_input, memory, resolver, chat_memory>>

retry_count == planner_config.retry_count
jump_step == planner_config.jump_step
eval_threshold == planner_config.eval_threshold

OutputObject(id, fw, out, sc) ==
  [id |-> id, framework |-> fw, output |-> out, score |-> sc]

\* OutputObject.get_data(key): <<>> when the key is missing
get_data(obj, key) ==
  CASE key = "framework" -> obj.framework
    [] key = "output" -> obj.output
    [] key = "score" -> obj.score
    [] OTHER -> <<>>

Slots == {"planning_result", "executing_result", "expressing_result",
          "reviewing_result", "expert_framework"}

\* input_object.add_data(key, value)
add_dataForgotten(io, key, value) == io
add_data(io, key, value) == [io EXCEPT ![key] = <<value>>]

Ev(op, stage) == [op |-> op, stage |-> stage, pass |-> pass]

\* generate_sub_agents has not been entered
ResolverIdle ==
  /\ role_config = [r \in Roles |-> <<>>]
  /\ sub_agents = {}
  /\ rk = 0

\* a ChatMemory as constructed: no messages (line 37), no llm (line 34)
MemoryIdle ==
  /\ messages = <<>>
  /\ llm = FALSE
  /\ max_tokens = 0
  /\ mem_log = <<>>

\* the entry of agents_run, with any dict of agents
Init ==
  /\ ResolverIdle
  /\ MemoryIdle
  /\ planner_config \in [retry_count : 1..MaxRetry, jump_step : Roles,
                         eval_threshold : Thresholds,
                         expert_framework : ExpertFrameworks]
  /\ agents \in SUBSET Roles
  /\ agent_input \in [input : Inputs]
  /\ memory \in BOOLEAN
  /\ input_object = [s \in Slots |-> <<>>]
  /\ planning_result = <<>>
  /\ executing_result = <<>>
  /\ expressing_result = <<>>
  /\ reviewing_result = <<>>
  /\ loopResults = <<>>
  /\ pass = 0
  /\ pc = "start"
  /\ result = <<>>
  /\ memory_calls = <<>>
  /\ trace = <<>>
  /\ objs = 0

\* ------------------------------------------------------------ decisions

\* `not x` on a local: dict() is falsy, an OutputObject is truthy
IsEmpty(x) == x = <<>>

\* `if not <stage>_result or jump_step in [...]` (lines 123, 126, 129, 132)
RunsStageStrict(stage, cur) ==
  IsEmpty(cur) \/ StageIndex(jump_step) < StageIndex(stage)
RunsStage(stage, cur) == IsEmpty(cur) \/ jump_step \in StagesUpTo(stage)

\* `for _ in range(retry_count)`: is there another pass after p passes?
HasNextInclusive(p, r) == p <= r
HasNext(p, r) == p < r

\* `if not reviewingAgent` (line 133)
NoReviewer(ag) == "reviewing" \notin ag

\* `score and score >= 100` (line 157)
AcceptedByThreshold(r) ==
  LET score == get_data(r, "score")
  IN  score # <<>> /\ score[1] # 0 /\ score[1] >= eval_threshold
AcceptedStrict(r) ==
  LET score == get_data(r, "score")
  IN  score # <<>> /\ score[1] # 0 /\ score[1] > AcceptBound
Accepted(r) ==
  LET score == get_data(r, "score")
  IN  score # <<>> /\ score[1] # 0 /\ score[1] >= AcceptBound

\* an exception of agent.run is not caught in agents_run: the run is over.
\* `next` is where the run would go on had the call returned.
OnRaiseCaught(next) == next
OnRaise(next) == "failed"

\* the dict appended to loopResults (lines 135-140, 158-163, 167-172)
IterationRecordNoReview(p, e, x, r) ==
  [planning_result |-> p, executing_result |-> e, expressing_result |-> x]
IterationRecordShifted(p, e, x, r) ==
  [planning_result |-> e, executing_result |-> p,
   expressing_result |-> x, reviewing_result |-> r]
IterationRecord(p, e, x, r) ==
  [planning_result |-> p, executing_result |-> e,
   expressing_result |-> x, reviewing_result |-> r]

Message(type, content) == [type |-> type, content |-> content]

\* the message_list of add_peer_memory (lines 188-189)
PeerMessagesSwapped(ai, peer_result) ==
  <<Message("ai", get_data(peer_result, "output")),
    Message("human", <<ai.input>>)>>
PeerMessagesEcho(ai, peer_result) ==
  <<Message("human", <<ai.input>>), Message("ai", <<ai.input>>)>>
PeerMessages(ai, peer_result) ==
  <<Message("human", <<ai.input>>),
    Message("ai", get_data(peer_result, "output"))>>

\* add_peer_memory (lines 178-190); the
\* value is the list of memory.add calls afterwards.  agent_input always
\* holds the key 'input', so it is a non-empty (truthy) dict.
add_peer_memory(calls, peer_memory, ai, peer_result) ==
  IF peer_memory /\ ~IsEmpty(peer_result)
    THEN Append(calls, [message_list |-> PeerMessages(ai, peer_result[1]),
                        kwargs |-> ai])
    ELSE calls

\* `if memory: self.add_peer_memory(memory, agent_input, expressing_result)`
\* (lines 142-143 and 174-175)
PersistMemoryNoGuard(calls, peer_result) ==
  Append(calls, [message_list |-> PeerMessages(agent_input, peer_result[1]),
                 kwargs |-> agent_input])
PersistMemory(calls, peer_result) ==
  IF memory
    THEN add_peer_memory(calls, memory, agent_input, peer_result)
    ELSE calls

\* the trace entries of one memory step: an "add" per new call
AddEvents(before, after) ==
  [k \in 1..(Len(after) - Len(before)) |-> Ev("add", "memory")]

\* -------------------------------------------------------------- actions

\* lines 100-119: locals, build_expert_framework (69-85), handle_memory
StartContextFirst ==
  /\ pc = "start"
  /\ LET ef == planner_config.expert_framework
     IN  IF ef.context
           THEN /\ input_object' = add_data(input_object, "expert_framework", "static")
                /\ trace' = Append(trace, Ev("write", "expert_framework"))
           ELSE IF ef.selector
             THEN /\ input_object' = add_data(input_object, "expert_framework", "selected")
                  /\ trace' = trace \o <<Ev("tool", "expert_framework"),
                                         Ev("write", "expert_framework")>>
             ELSE UNCHANGED <<input_object, trace>>
  /\ pc' = "for"
  /\ UNCHANGED <<config, planning_result, executing_result, expressing_result,
                 reviewing_result, loopResults, pass, result, memory_calls, objs>>
Start ==
  /\ pc = "start"
  /\ LET ef == planner_config.expert_framework
     IN  IF ef.selector
           THEN /\ input_object' = add_data(input_object, "expert_framework", "selected")
                /\ trace' = trace \o <<Ev("tool", "expert_framework"),
                                       Ev("write", "expert_framework")>>
           ELSE IF ef.context
             THEN /\ input_object' = add_data(input_object, "expert_framework", "static")
                  /\ trace' = Append(trace, Ev("write", "expert_framework"))
             ELSE UNCHANGED <<input_object, trace>>
  /\ pc' = "for"
  /\ UNCHANGED <<config, planning_result, executing_result, expressing_result,
                 reviewing_result, loopResults, pass, result, memory_calls, objs>>

\* line 121-122: the loop head starts the next pass
LoopHead ==
  /\ pc = "for"
  /\ HasNext(pass, retry_count)
  /\ pass' = pass + 1
  /\ pc' = "planning"
  /\ UNCHANGED <<config, input_object, planning_result, executing_result,
                 expressing_result, reviewing_result, loopResults, result,
                 memory_calls, trace, objs>>

\* a stage whose `if` is false is not run
Skip(next) ==
  /\ pc' = next
  /\ UNCHANGED <<config, input_object, planning_result, executing_result,
                 expressing_result, reviewing_result, loopResults, pass,
                 result, memory_calls, trace, objs>>

\* agent.run raised: nothing is assigned, the exception leaves agents_run
Raise(stage, next) ==
  /\ pc' = OnRaise(next)
  /\ trace' = trace \o <<Ev("run", stage), Ev("raise", stage)>>
  /\ UNCHANGED <<config, input_object, planning_result, executing_result,
                 expressing_result, reviewing_result, loopResults, pass,
                 result, memory_calls, objs>>

\* the result of a stage that has no agent: OutputObject({"framework":
\* [agent_input.get('input')]}) at line 206, OutputObject({}) at 236 and 269
default_planning_resultEmpty(id) == OutputObject(id, <<>>, <<>>, <<>>)
default_planning_result(id) ==
  OutputObject(id, << <<agent_input.input>> >>, <<>>, <<>>)
default_result(id) == OutputObject(id, <<>>, <<>>, <<>>)

\* planning_agent_run (lines 192-221)
planning_agent_run ==
  \/ /\ "planning" \notin agents
     /\ LET r == default_planning_result(objs + 1)
        IN  /\ planning_result' = <<r>>
            /\ input_object' = add_data(input_object, "planning_result", r)
            /\ trace' = trace \o <<Ev("default", "planning"),
                                   Ev("write", "planning"),
                                   Ev("emit", "planning")>>
     /\ objs' = objs + 1
     /\ pc' = "executing"
     /\ UNCHANGED <<config, executing_result, expressing_result,
                    reviewing_result, loopResults, pass, result, memory_calls>>
  \/ /\ "planning" \in agents
     /\ LET r == OutputObject(objs + 1, << <<"step">> >>, <<>>, <<>>)
        IN  /\ planning_result' = <<r>>
            /\ input_object' = add_data(input_object, "planning_result", r)
            /\ trace' = trace \o <<Ev("run", "planning"),
                                   Ev("write", "planning"),
                                   Ev("emit", "planning")>>
     /\ objs' = objs + 1
     /\ pc' = "executing"
     /\ UNCHANGED <<config, executing_result, expressing_result,
                    reviewing_result, loopResults, pass, result, memory_calls>>
  \/ \* the agent's result has no 'framework': enumerate(None) raises at
     \* line 214, after the slot is written and before the event
     /\ "planning" \in agents
     /\ LET r == OutputObject(objs + 1, <<>>, <<>>, <<>>)
        IN  /\ input_object' = add_data(input_object, "planning_result", r)
            /\ trace' = trace \o <<Ev("run", "planning"),
                                   Ev("write", "planning"),
                                   Ev("raise", "planning")>>
     /\ objs' = objs + 1
     /\ pc' = OnRaise("executing")
     /\ UNCHANGED <<config, planning_result, executing_result,
                    expressing_result, reviewing_result, loopResults, pass,
                    result, memory_calls>>
  \/ /\ "planning" \in agents
     /\ Raise("planning", "executing")

\* lines 123-124
PlanningStep ==
  /\ pc = "planning"
  /\ IF RunsStage("planning", planning_result)
       THEN planning_agent_run
       ELSE Skip("executing")

\* executing_agent_run (lines 223-254)
executing_agent_run ==
  \/ /\ LET r == IF "executing" \in agents
                   THEN OutputObject(objs + 1, <<>>, <<>>, <<>>)
                   ELSE default_result(objs + 1)
        IN  /\ executing_result' = <<r>>
            /\ input_object' = add_data(input_object, "executing_result", r)
     /\ trace' = trace \o <<Ev(IF "executing" \in agents THEN "run" ELSE "default",
                               "executing"),
                            Ev("write", "executing"),
                            Ev("emit", "executing")>>
     /\ objs' = objs + 1
     /\ pc' = "expressing"
     /\ UNCHANGED <<config, planning_result, expressing_result,
                    reviewing_result, loopResults, pass, result, memory_calls>>
  \/ \* an item of the agent's 'executing_result' list has no 'input' or
     \* 'output': the log loop raises at lines 246-247, after the slot is
     \* written and before the event
     /\ "executing" \in agents
     /\ LET r == OutputObject(objs + 1, <<>>, <<>>, <<>>)
        IN  /\ input_object' = add_data(input_object, "executing_result", r)
            /\ trace' = trace \o <<Ev("run", "executing"),
                                   Ev("write", "executing"),
                                   Ev("raise", "executing")>>
     /\ objs' = objs + 1
     /\ pc' = OnRaise("expressing")
     /\ UNCHANGED <<config, planning_result, executing_result,
                    expressing_result, reviewing_result, loopResults, pass,
                    result, memory_calls>>
  \/ /\ "executing" \in agents
     /\ Raise("executing", "expressing")

\* lines 126-127
ExecutingStep ==
  /\ pc = "executing"
  /\ IF RunsStage("executing", executing_result)
       THEN executing_agent_run
       ELSE Skip("expressing")

\* expressing_agent_run (lines 256-283)
expressing_agent_run ==
  \/ /\ "expressing" \notin agents
     /\ LET r == default_result(objs + 1)
        IN  /\ expressing_result' = <<r>>
            /\ input_object' = add_data(input_object, "expressing_result", r)
     /\ trace' = trace \o <<Ev("default", "expressing"),
                            Ev("write", "expressing"),
                            Ev("emit", "expressing")>>
     /\ objs' = objs + 1
     /\ pc' = "reviewing"
     /\ UNCHANGED <<config, planning_result, executing_result,
                    reviewing_result, loopResults, pass, result, memory_calls>>
  \/ /\ "expressing" \in agents
     /\ \E out \in Outputs :
          LET r == OutputObject(objs + 1, <<>>, <<out>>, <<>>)
          IN  /\ expressing_result' = <<r>>
              /\ input_object' = add_data(input_object, "expressing_result", r)
     /\ trace' = trace \o <<Ev("run", "expressing"),
                            Ev("write", "expressing"),
                            Ev("emit", "expressing")>>
     /\ objs' = objs + 1
     /\ pc' = "reviewing"
     /\ UNCHANGED <<config, planning_result, executing_result,
                    reviewing_result, loopResults, pass, result, memory_calls>>
  \/ /\ "expressing" \in agents
     /\ Raise("expressing", "reviewing")

\* lines 129-130
ExpressingStep ==
  /\ pc = "expressing"
  /\ IF RunsStage("expressing", expressing_result)
       THEN expressing_agent_run
       ELSE Skip("reviewing")

\* lines 133-144: no reviewing agent, the run ends with this pass
no_reviewer_exitNoReturn ==
  LET rec == IterationRecord(planning_result, executing_result,
                             expressing_result, reviewing_result)
      calls == PersistMemory(memory_calls, expressing_result)
  IN  /\ loopResults' = Append(loopResults, rec)
      /\ memory_calls' = calls
      /\ trace' = trace \o <<Ev("append", "no_reviewer")>>
                        \o AddEvents(memory_calls, calls)
      /\ pc' = "for"
      /\ UNCHANGED <<config, input_object, planning_result, executing_result,
                     expressing_result, reviewing_result, pass, objs, result>>
no_reviewer_exit ==
  LET rec == IterationRecord(planning_result, executing_result,
                             expressing_result, reviewing_result)
      calls == PersistMemory(memory_calls, expressing_result)
  IN  /\ loopResults' = Append(loopResults, rec)
      /\ result' = <<loopResults'>>
      /\ memory_calls' = calls
      /\ trace' = trace \o <<Ev("append", "no_reviewer")>>
                        \o AddEvents(memory_calls, calls)
                        \o <<Ev("return", "no_reviewer")>>
      /\ pc' = "done"
      /\ UNCHANGED <<config, input_object, planning_result, executing_result,
                     expressing_result, reviewing_result, pass, objs>>

\* lines 145-172: run the reviewer, then accept or go on
reviewing_run ==
  \/ \E sc \in Scores :
       LET r == OutputObject(objs + 1, <<>>, <<>>, sc)
           rec == IterationRecord(planning_result, executing_result,
                                  expressing_result, <<r>>)
       IN  /\ reviewing_result' = <<r>>
           /\ input_object' = add_data(input_object, "reviewing_result", r)
           /\ objs' = objs + 1
           /\ loopResults' = Append(loopResults, rec)
           /\ IF Accepted(r)
                THEN /\ result' = <<loopResults'>>
                     /\ trace' = trace \o <<Ev("run", "reviewing"),
                                            Ev("write", "reviewing"),
                                            Ev("emit", "reviewing"),
                                            Ev("append", "accepted"),
                                            Ev("return", "accepted")>>
                     /\ pc' = "done"
                ELSE /\ result' = result
                     /\ trace' = trace \o <<Ev("run", "reviewing"),
                                            Ev("write", "reviewing"),
                                            Ev("emit", "reviewing"),
                                            Ev("append", "continue")>>
                     /\ pc' = "for"
           /\ UNCHANGED <<config, planning_result, executing_result,
                          expressing_result, pass, memory_calls>>
  \/ Raise("reviewing", "for")

\* lines 132-172
ReviewingStep ==
  /\ pc = "reviewing"
  /\ IF RunsStage("reviewing", reviewing_result)
       THEN IF NoReviewer(agents) THEN no_reviewer_exit ELSE reviewing_run
       ELSE Skip("for")

\* lines 173-176: the loop is exhausted
LoopExit ==
  /\ pc = "for"
  /\ ~HasNext(pass, retry_count)
  /\ LET calls == PersistMemory(memory_calls, expressing_result)
     IN  /\ memory_calls' = calls
         /\ trace' = trace \o AddEvents(memory_calls, calls)
                           \o <<Ev("return", "exhausted")>>
  /\ result' = <<loopResults>>
  /\ pc' = "done"
  /\ UNCHANGED <<config, input_object, planning_result, executing_result,
                 expressing_result, reviewing_result, loopResults, pass, objs>>

Next ==
  \/ Start
  \/ LoopHead
  \/ PlanningStep
  \/ ExecutingStep
  \/ ExpressingStep
  \/ ReviewingStep
  \/ LoopExit

Spec == Init /\ [][Next]_vars

\* ------------------------------------------------- reading a run's trace

\* how the run ended: "no_reviewer", "accepted", "exhausted", else "none"
ExitKind ==
  IF trace # <<>> /\ trace[Len(trace)].op = "return"
    THEN trace[Len(trace)].stage
    ELSE "none"

EarlyExits == {"no_reviewer", "accepted"}

\* the trace positions where stage s was executed (agent call or default)
Executions(s) ==
  {n \in 1..Len(trace) : trace[n].op \in {"run", "default"} /\ trace[n].stage = s}
ExecutionsIn(s, p) == {n \in Executions(s) : trace[n].pass = p}
IsExecution(e) == e.op \in {"run", "default"}
IsEmit(e) == e.op = "emit"
\* the <<stage, pass>> pairs of the executions in the trace
Executed ==
  {<<trace[n].stage, trace[n].pass>> :
     n \in {m \in 1..Len(trace) : IsExecution(trace[m])}}

AddPositions == {n \in 1..Len(trace) : trace[n].op = "add"}

\* the record's field and the local of a stage
FieldOf(rec, s) ==
  CASE s = "planning" -> rec.planning_result
    [] s = "executing" -> rec.executing_result
    [] s = "expressing" -> rec.expressing_result
    [] s = "reviewing" -> rec.reviewing_result
LocalOf(s) ==
  CASE s = "planning" -> planning_result
    [] s = "executing" -> executing_result
    [] s = "expressing" -> expressing_result
    [] s = "reviewing" -> reviewing_result
SlotOf(s) ==
  CASE s = "planning" -> input_object["planning_result"]
    [] s = "executing" -> input_object["executing_result"]
    [] s = "expressing" -> input_object["expressing_result"]
    [] s = "reviewing" -> input_object["reviewing_result"]

\* the reviewer's score in a record is present, non-zero and >= 100
MeetsBound(rec) ==
  /\ rec.reviewing_result # <<>>
  /\ rec.reviewing_result[1].score # <<>>
  /\ rec.reviewing_result[1].score[1] # 0
  /\ rec.reviewing_result[1].score[1] >= 100

LastRecord == loopResults[Len(loopResults)]

\* ---------------------------------------------------------------- claims

\* C1 (as stated): at most retry_count passes are performed, the returned
\* list has length <= retry_count, and the length is exactly retry_count
\* only if no early termination (no-reviewer exit, acceptance) fired.
C1_LengthRetryOnlyWithoutEarlyExit ==
  /\ pass <= retry_count
  /\ result # <<>> =>
       /\ Len(result[1]) <= retry_count
       /\ Len(result[1]) = retry_count => ExitKind \notin EarlyExits

\* C1 (amended): at most retry_count passes are performed and the returned
\* list has length <= retry_count; without early termination the length is
\* exactly retry_count, and a shorter list is returned only after an early
\* termination (an early termination on the last pass also gives length
\* retry_count).
C1_PassBound ==
  /\ pass <= retry_count
  /\ Len(loopResults) <= pass
  /\ result # <<>> =>
       /\ Len(result[1]) <= retry_count
       /\ ExitKind = "exhausted" => Len(result[1]) = retry_count
       /\ Len(result[1]) < retry_count => ExitKind \in EarlyExits

C1_Witness ==
  /\ result # <<>>
  /\ ExitKind = "exhausted"
  /\ retry_count = 2
  /\ Len(result[1]) = 2

\* C2: with a reviewer and a memory configured, a run that stops because the
\* reviewer's score meets the bound on pass k returns k records and has
\* persisted memory: one add call whose ai message is pass k's expressing
\* output.
C2_AcceptancePersistsMemory ==
  (pc = "done" /\ ExitKind = "accepted" /\ memory) =>
    /\ Len(result[1]) = pass
    /\ Len(memory_calls) = 1
    /\ memory_calls[1].message_list[2].content =
         get_data(LastRecord.expressing_result[1], "output")

\* C3: with no reviewing agent the run makes one pass: one IterationRecord,
\* planning, executing and expressing executed exactly once each, and one
\* memory add call when a memory is configured, whatever retry_count and
\* jump_step are.
C3_NoReviewerSinglePass ==
  NoReviewer(agents) =>
    /\ pass <= 1
    /\ Len(loopResults) <= 1
    /\ \A s \in Roles : Cardinality(Executions(s)) <= 1
    /\ Executions("reviewing") = {}
    /\ input_object["reviewing_result"] = <<>>
    /\ pc = "done" =>
         /\ result = <<loopResults>>
         /\ Len(loopResults) = 1
         /\ \A s \in Roles \ {"reviewing"} : Cardinality(Executions(s)) = 1
         /\ Len(memory_calls) = (IF memory THEN 1 ELSE 0)

C3_Witness ==
  /\ NoReviewer(agents)
  /\ retry_count = 2
  /\ jump_step = "planning"
  /\ memory
  /\ pc = "done"
  /\ Len(memory_calls) = 1
  /\ Len(result[1]) = 1

\* C4: a record whose reviewer score meets the bound ends the run: it is the
\* last record, the run has returned the list, whose length is the number
\* of passes started, and after that review's progress event the trace
\* holds only the append and the return.
C4_AcceptanceTerminates ==
  \A k \in 1..Len(loopResults) :
    MeetsBound(loopResults[k]) =>
      /\ k = Len(loopResults)
      /\ k = pass
      /\ pc = "done"
      /\ result = <<loopResults>>
      /\ Len(trace) >= 3
      /\ trace[Len(trace) - 2] = [op |-> "emit", stage |-> "reviewing", pass |-> k]
      /\ trace[Len(trace) - 1].op = "append"
      /\ trace[Len(trace)].op = "return"

C4_Witness ==
  /\ pc = "done"
  /\ retry_count = 2
  /\ pass = 1
  /\ Len(result[1]) = 1
  /\ MeetsBound(result[1][1])

\* C5: on a pass after the first a stage is executed iff jump_step names it
\* or an earlier stage; a stage before jump_step is not executed, and its
\* local, its record field and its context slot stay the object of pass 1,
\* while every other stage's result is a new object.
C5_JumpStep ==
  /\ \A n \in 1..Len(trace) :
       (trace[n].op \in {"run", "default"} /\ trace[n].pass >= 2) =>
         StageIndex(jump_step) <= StageIndex(trace[n].stage)
  /\ LET executed == Executed IN
     \A k \in 2..Len(loopResults) : \A s \in Roles :
       /\ <<s, k>> \in executed <=> StageIndex(jump_step) <= StageIndex(s)
       /\ StageIndex(s) < StageIndex(jump_step) =>
            FieldOf(loopResults[k], s) = FieldOf(loopResults[1], s)
       /\ StageIndex(jump_step) <= StageIndex(s) =>
            FieldOf(loopResults[k], s)[1].id > FieldOf(loopResults[k - 1], s)[1].id
  /\ pass >= 2 =>
       \A s \in Roles :
         StageIndex(s) < StageIndex(jump_step) =>
           /\ LocalOf(s) = FieldOf(loopResults[1], s)
           /\ SlotOf(s) = FieldOf(loopResults[1], s)

C5_Witness ==
  /\ jump_step = "executing"
  /\ Len(loopResults) = 2
  /\ loopResults[2].planning_result = loopResults[1].planning_result
  /\ loopResults[2].executing_result # loopResults[1].executing_result
  /\ loopResults[2].expressing_result # loopResults[1].expressing_result
  /\ loopResults[2].reviewing_result # loopResults[1].reviewing_result

\* C6: when retry_count passes complete without early termination and a
\* memory is configured, memory is persisted exactly once, after the last
\* pass, with the last record's expressing output as the ai message, and
\* all retry_count records are returned in pass order.
C6_ExhaustedPersistsLast ==
  ExitKind = "exhausted" =>
    /\ pc = "done"
    /\ result = <<loopResults>>
    /\ Len(loopResults) = retry_count
    /\ \A k \in 1..Len(loopResults) :
         Cardinality({n \in 1..Len(trace) :
                        trace[n].op = "append" /\ trace[n].pass = k}) = 1
    /\ \A k \in 2..Len(loopResults) :
         loopResults[k].reviewing_result[1].id >
           loopResults[k - 1].reviewing_result[1].id
    /\ memory =>
         /\ Len(memory_calls) = 1
         /\ AddPositions = {Len(trace) - 1}
         /\ trace[Len(trace) - 2].op = "append"
         /\ trace[Len(trace) - 2].pass = retry_count
         /\ LastRecord.expressing_result = expressing_result
         /\ memory_calls[1].message_list[2] =
              Message("ai", get_data(LastRecord.expressing_result[1], "output"))

C6_Witness ==
  /\ ExitKind = "exhausted"
  /\ memory
  /\ retry_count = 2
  /\ jump_step = "expressing"
  /\ Len(memory_calls) = 1
  /\ loopResults[1].expressing_result[1].output = <<"a">>
  /\ memory_calls[1].message_list[2].content = <<"b">>

\* C7: every memory.add call gets exactly two messages, human then ai; the
\* human content is the request's 'input' and the ai content is the 'output'
\* field of the expressing result.
C7_TwoMessages ==
  \A c \in 1..Len(memory_calls) :
    LET ml == memory_calls[c].message_list
    IN  /\ Len(ml) = 2
        /\ ml[1].type = "human"
        /\ ml[2].type = "ai"
        /\ ml[1].content = <<agent_input.input>>
        /\ expressing_result # <<>>
        /\ ml[2].content = get_data(expressing_result[1], "output")

C7_Witness ==
  /\ Len(memory_calls) = 1
  /\ agent_input.input = "q2"
  /\ memory_calls[1].message_list[1].content = <<"q2">>
  /\ memory_calls[1].message_list[2].content = <<"b">>

\* C8: memory.add is called at most once in a run, only where the run ends
\* (nothing but the return follows it), and never without a memory.
C8_AddAtMostOnceAtExit ==
  /\ Len(memory_calls) <= 1
  /\ Cardinality(AddPositions) = Len(memory_calls)
  /\ ~memory => memory_calls = <<>>
  /\ \A n \in AddPositions :
       /\ n = Len(trace) - 1
       /\ trace[Len(trace)].op = "return"
       /\ pc = "done"

C8_Witness ==
  /\ memory
  /\ Len(memory_calls) = 1
  /\ ExitKind = "no_reviewer"
  /\ retry_count = 2

\* C9: a pass whose reviewer ran ends the run early iff the score is present,
\* non-zero and >= 100; otherwise its record is appended and the loop goes
\* on to the retry_count bound.  eval_threshold plays no part: the test is
\* on the score alone, for every configured threshold.
C9_AcceptanceOnScoreAlone ==
  /\ \A k \in 1..Len(loopResults) :
       MeetsBound(loopResults[k]) => (k = Len(loopResults) /\ ExitKind = "accepted")
  /\ ExitKind = "accepted" => MeetsBound(LastRecord)
  /\ (pc = "for" /\ pass >= 1) =>
       /\ Len(loopResults) = pass
       /\ ~MeetsBound(LastRecord)
  /\ (pc = "done" /\ ~NoReviewer(agents) /\ ~MeetsBound(LastRecord)) =>
       /\ ExitKind = "exhausted"
       /\ Len(loopResults) = retry_count

C9_Witness ==
  /\ eval_threshold = 60
  /\ Len(loopResults) = 2
  /\ loopResults[1].reviewing_result[1].score = <<60>>
  /\ ExitKind = "exhausted"

\* C10: when an agent raises, the run is over: the raise is the last entry
\* of the trace (no later stage, no retry of the stage), nothing is
\* returned, not even the records of earlier passes, and memory.add is not
\* called.
C10_FailureIsFatal ==
  /\ \A n \in 1..Len(trace) :
       trace[n].op = "raise" => (n = Len(trace) /\ pc = "failed")
  /\ pc = "failed" =>
       /\ trace[Len(trace)].op = "raise"
       /\ result = <<>>
       /\ memory_calls = <<>>
       /\ Cardinality(ExecutionsIn(trace[Len(trace)].stage, pass)) = 1

C10_Witness ==
  /\ pc = "failed"
  /\ memory
  /\ pass = 2
  /\ Len(loopResults) = 1
  /\ trace[Len(trace) - 1] = [op |-> "run", stage |-> "expressing", pass |-> 2]

\* the stages a missing agent degrades (planning, executing, expressing)
WrappedStages == Roles \ {"reviewing"}

\* where agents_run goes after a stage
FollowingStage(s) ==
  CASE s = "planning" -> "executing"
    [] s = "executing" -> "expressing"
    [] s = "expressing" -> "reviewing"
    [] s = "reviewing" -> "for"

\* C11: a planning, executing or expressing stage whose agent is absent
\* does not fail: it yields the default result (planning: a framework list
\* holding exactly the raw input; executing, expressing: an empty result),
\* writes it to the stage's slot, emits the stage's event, and the run goes
\* on to the following stage and returns a list of the normal shape.
C11_DegradedStages ==
  /\ \A n \in 1..Len(trace) :
       trace[n].op = "default" =>
         /\ trace[n].stage \in WrappedStages \ agents
         /\ n + 2 <= Len(trace)
         /\ trace[n + 1].op = "write" /\ trace[n + 1].stage = trace[n].stage
         /\ trace[n + 1].pass = trace[n].pass
         /\ trace[n + 2].op = "emit" /\ trace[n + 2].stage = trace[n].stage
         /\ trace[n + 2].pass = trace[n].pass
         /\ n + 2 = Len(trace) => pc = FollowingStage(trace[n].stage)
  /\ \A n \in 1..Len(trace) :
       trace[n].stage \in WrappedStages \ agents =>
         trace[n].op \in {"default", "write", "emit"}
  /\ \A s \in WrappedStages \ agents :
       LocalOf(s) # <<>> =>
            /\ SlotOf(s) = LocalOf(s)
            /\ LocalOf(s)[1].output = <<>>
            /\ LocalOf(s)[1].score = <<>>
            /\ LocalOf(s)[1].framework =
                 (IF s = "planning" THEN << <<agent_input.input>> >> ELSE <<>>)
  /\ agents = {} => pc # "failed"
  /\ (WrappedStages \cap agents = {} /\ pc = "done") =>
       /\ result = <<loopResults>>
       /\ Len(loopResults) >= 1
       /\ \A k \in 1..Len(loopResults) : \A s \in WrappedStages :
            /\ FieldOf(loopResults[k], s) # <<>>
            /\ Cardinality({n \in ExecutionsIn(s, k) : trace[n].op = "default"}) =
                 Cardinality(ExecutionsIn(s, k))

C11_Witness ==
  /\ agents = {"reviewing"}
  /\ jump_step = "planning"
  /\ pc = "done"
  /\ Len(result[1]) = 2
  /\ result[1][2].planning_result[1].framework = << <<"q2">> >>
  /\ result[1][2].expressing_result[1].output = <<>>

\* ------------------------------------------------ invoke and the resolver

default_retry_count == 2

\* default_sub_agents (lines 21-26); its items() go in the order of Stages
default_sub_agents ==
  [planning |-> "PlanningAgent", executing |-> "ExecutingAgent",
   expressing |-> "ExpressingAgent", reviewing |-> "ReviewingAgent"]

\* planner_config.get(config_key, None): unset, '', a registered name, an
\* unregistered name
RoleValues == {<<>>, <<"">>, <<"MyAgent">>, <<"NoSuchAgent">>}

\* the names the global agent registry holds
Registry == {default_sub_agents[r] : r \in Roles} \cup {"MyAgent"}

\* AgentManager().get_instance_obj(name): the handle of a registered name;
\* <<>> stands for the fatal configuration error of an unknown name
get_instance_obj(name) == IF name \in Registry THEN <<name>> ELSE <<>>

\* `if config_data == '': continue` (lines 64-65)
OmittedWhenFalsy(config_data) == config_data \in {<<>>, <<"">>}
Omitted(config_data) == config_data = <<"">>

\* `config_data if config_data else default_agent` (line 66)
AgentName(config_data, default_agent) ==
  IF config_data # <<>> /\ config_data # <<"">>
    THEN config_data[1]
    ELSE default_agent

\* the lookup's error is caught neither in generate_sub_agents nor in
\* invoke (lines 49-50, 62-66): invoke is over before agents_run is called.
\* `next` is where invoke would go on had the lookup returned.
OnLookupErrorIgnored(next) == next
OnLookupError(next) == "config_error"

\* the entry of invoke (line 38): any role values, the planner's defaults
InitResolver ==
  /\ MemoryIdle
  /\ role_config \in [Roles -> RoleValues]
  /\ sub_agents = {}
  /\ rk = 0
  /\ planner_config = [retry_count |-> default_retry_count,
                       jump_step |-> "expressing",
                       eval_threshold |-> default_eval_threshold,
                       expert_framework |-> [context |-> FALSE, selector |-> FALSE]]
  /\ agents = {}
  /\ agent_input = [input |-> "q1"]
  /\ memory \in BOOLEAN
  /\ input_object = [s \in Slots |-> <<>>]
  /\ planning_result = <<>>
  /\ executing_result = <<>>
  /\ expressing_result = <<>>
  /\ reviewing_result = <<>>
  /\ loopResults = <<>>
  /\ pass = 0
  /\ pc = "invoke"
  /\ result = <<>>
  /\ memory_calls = <<>>
  /\ trace = <<>>
  /\ objs = 0

\* one iteration of the loop of generate_sub_agents (lines 62-66)
ResolveRole ==
  /\ pc = "invoke"
  /\ rk < Len(Stages)
  /\ rk' = rk + 1
  /\ LET config_key == Stages[rk + 1]
         config_data == role_config[config_key]
         handle == get_instance_obj(AgentName(config_data,
                                              default_sub_agents[config_key]))
     IN  IF Omitted(config_data)
           THEN UNCHANGED <<sub_agents, pc>>
           ELSE IF handle = <<>>
             THEN /\ pc' = OnLookupError("invoke")
                  /\ UNCHANGED sub_agents
             ELSE /\ sub_agents' = sub_agents \cup {<<config_key, handle[1]>>}
                  /\ pc' = pc
  /\ UNCHANGED <<planner_config, agents, agent_input, memory, role_config,
                 chat_memory, input_object, planning_result, executing_result,
                 expressing_result, reviewing_result, loopResults, pass,
                 result, memory_calls, trace, objs>>

\* lines 50 and 114-117: agents_run is called with the resolved dict
CallAgentsRun ==
  /\ pc = "invoke"
  /\ rk = Len(Stages)
  /\ agents' = {p[1] : p \in sub_agents}
  /\ pc' = "start"
  /\ UNCHANGED <<planner_config, agent_input, memory, resolver, chat_memory,
                 input_object, planning_result, executing_result,
                 expressing_result, reviewing_result, loopResults, pass,
                 result, memory_calls, trace, objs>>

NextResolver ==
  \/ ResolveRole
  \/ CallAgentsRun
  \/ Next

SpecResolver == InitResolver /\ [][NextResolver]_vars

\* the roles generate_sub_agents has gone through
RolesDone == {Stages[k] : k \in 1..rk}

\* C12: generate_sub_agents omits a role whose configured value is the empty
\* string, resolves the role's default name when the value is unset and the
\* configured name otherwise; the dict has 0 to 4 entries and holds a role
\* exactly when its configured value is not the empty string.
C12_Resolver ==
  pc # "config_error" =>
    /\ {p[1] : p \in sub_agents} = {r \in RolesDone : role_config[r] # <<"">>}
    /\ Cardinality(sub_agents) = Cardinality({p[1] : p \in sub_agents})
    /\ Cardinality(sub_agents) \in 0..4
    /\ \A p \in sub_agents :
         p[2] = (IF role_config[p[1]] = <<>>
                   THEN default_sub_agents[p[1]]
                   ELSE role_config[p[1]][1])
    /\ pc # "invoke" => agents = {r \in Roles : role_config[r] # <<"">>}

C12_Witness ==
  /\ pc = "start"
  /\ role_config = [planning |-> <<>>, executing |-> <<"">>,
                    expressing |-> <<"MyAgent">>, reviewing |-> <<"">>]
  /\ sub_agents = {<<"planning", "PlanningAgent">>, <<"expressing", "MyAgent">>}
  /\ agents = {"planning", "expressing"}

\* the configured value of role r is a name the registry does not hold
Unresolvable(r) ==
  /\ role_config[r] \notin {<<>>, <<"">>}
  /\ role_config[r][1] \notin Registry

StagePositions(ops) == {n \in 1..Len(trace) : trace[n].op \in ops}

\* C14: within a pass the stages that run are executed in the order
\* planning, executing, expressing, reviewing, none twice; passes follow one
\* another: nothing of pass k+1 is in the trace before the IterationRecord
\* of pass k was appended.  The pass numbers never decrease along the trace,
\* so the executions (and the events) of one pass are consecutive among the
\* executions (events), and a strictly increasing stage index between
\* neighbours orders every pair of them.
C14_Ordering ==
  /\ \A n \in 1..(Len(trace) - 1) :
       /\ trace[n].pass <= trace[n + 1].pass
       /\ trace[n].pass < trace[n + 1].pass =>
            \/ trace[n + 1].pass = 1
            \/ trace[n] = [op |-> "append", stage |-> "continue",
                           pass |-> trace[n + 1].pass - 1]
  /\ \A es \in {SelectSeq(trace, IsExecution), SelectSeq(trace, IsEmit)} :
       \A n \in 1..(Len(es) - 1) :
         es[n].pass = es[n + 1].pass =>
           StageIndex(es[n].stage) < StageIndex(es[n + 1].stage)
  /\ pass >= 2 => Len(loopResults) >= pass - 1

C14_Witness ==
  /\ agents = Roles
  /\ jump_step = "planning"
  /\ Len(loopResults) = 2
  /\ Cardinality(StagePositions({"run"})) = 8
  /\ Cardinality(StagePositions({"emit"})) = 8

\* trace entry n with its op replaced
EntryAs(n, op) == [trace[n] EXCEPT !.op = op]
\* entry m is the `op` entry of the stage and pass of entry n
EntryIs(m, op, n) ==
  /\ trace[m].op = op
  /\ trace[m].stage = trace[n].stage
  /\ trace[m].pass = trace[n].pass

C16_ExpertFrameworkOnce ==
  LET ef == planner_config.expert_framework
      tools == {n \in 1..Len(trace) : trace[n].op = "tool"}
      writes == {n \in 1..Len(trace) :
                   trace[n] = [op |-> "write", stage |-> "expert_framework", pass |-> 0]}
      injected == {n \in 1..Len(trace) : trace[n].stage = "expert_framework"}
  IN  /\ pc = "start" =>
           (trace = <<>> /\ input_object["expert_framework"] = <<>>)
      /\ pc # "start" =>
           /\ input_object["expert_framework"] =
                (IF ef.selector THEN <<"selected">>
                 ELSE IF ef.context THEN <<"static">> ELSE <<>>)
           /\ tools = (IF ef.selector THEN {1} ELSE {})
           /\ writes = (IF ef.selector THEN {2}
                        ELSE IF ef.context THEN {1} ELSE {})
           /\ injected = tools \cup writes

C16_Witness ==
  /\ planner_config.expert_framework = [context |-> TRUE, selector |-> TRUE]
  /\ input_object["expert_framework"] = <<"selected">>
  /\ jump_step = "planning"
  /\ Len(loopResults) = 2

IsPrefix(a, b) ==
  /\ Len(a) <= Len(b)
  /\ \A k \in 1..Len(a) : a[k] = b[k]

RecordKeys == {"planning_result", "executing_result", "expressing_result",
               "reviewing_result"}

\* C17: loopResults is append-only: every step leaves the records it holds
\* as they are, a pass that completes appends exactly one record with the
\* four keys, and the list returned is the accumulated list (so the list
\* at any time is a prefix of it).
C17_AppendOnly ==
  [][/\ IsPrefix(loopResults, loopResults')
     /\ Len(loopResults') <= Len(loopResults) + 1
     /\ Len(loopResults') = Len(loopResults) + 1 =>
          /\ pc = "reviewing"
          /\ Len(loopResults') = pass
          /\ DOMAIN loopResults'[pass] = RecordKeys
     /\ (pc = "reviewing" /\ pc' \in {"for", "done"}) =>
          Len(loopResults') = Len(loopResults) + 1
     /\ result # <<>> => result' = result
     /\ result' # <<>> => result' = <<loopResults'>>]_vars

C17_Witness ==
  /\ result = <<loopResults>>
  /\ Len(loopResults) = 2
  /\ loopResults[1] # loopResults[2]
  /\ DOMAIN loopResults[1] = RecordKeys

\* C19: when an IterationRecord is appended, its planning, executing and
\* expressing results are the values in the context slots of the same
\* names, and its reviewing_result is the context's when the reviewer ran;
\* with no reviewing agent the single record's reviewing_result is the
\* empty default and the context's reviewing_result slot is never written.
C19_RecordMatchesContext ==
  /\ (Len(loopResults) >= 1 /\ pc \in {"for", "done"}) =>
       /\ \A s \in WrappedStages :
            /\ FieldOf(LastRecord, s) # <<>>
            /\ FieldOf(LastRecord, s) = SlotOf(s)
       /\ IF NoReviewer(agents)
            THEN /\ LastRecord.reviewing_result = <<>>
                 /\ Len(loopResults) = 1
            ELSE /\ LastRecord.reviewing_result # <<>>
                 /\ LastRecord.reviewing_result = SlotOf("reviewing")
  /\ NoReviewer(agents) =>
       /\ SlotOf("reviewing") = <<>>
       /\ \A n \in 1..Len(trace) : trace[n].stage # "reviewing"

C19_Witness ==
  /\ agents = WrappedStages
  /\ pc = "done"
  /\ Len(result[1]) = 1
  /\ result[1][1].reviewing_result = <<>>
  /\ result[1][1].expressing_result = input_object["expressing_result"]
  /\ result[1][1].expressing_result[1].output = <<"a">>

\* ------------------------------------------------------------ ChatMemory

\* the messages a caller adds, and the lists it passes to add
Msgs == {Message("human", <<"q1">>), Message("ai", <<"a">>)}
AddLists == {<<>>} \cup {<<m>> : m \in Msgs} \cup {<<m, n>> : m \in Msgs, n \in Msgs}

\* llm.get_num_tokens(get_memory_string(message_list)): a human line counts
\* one token and an ai line two, the empty string none
RECURSIVE get_num_tokens(_)
get_num_tokens(message_list) ==
  IF message_list = <<>>
    THEN 0
    ELSE (IF Head(message_list).type = "human" THEN 1 ELSE 2)
           + get_num_tokens(Tail(message_list))

\* the while loop of prune (lines 106-109) on the copy prune_messages
RECURSIVE prune_loopFromTail(_, _)
prune_loopFromTail(prune_messages, budget) ==
  IF get_num_tokens(prune_messages) > budget
    THEN prune_loopFromTail(SubSeq(prune_messages, 1, Len(prune_messages) - 1),
                            budget)
    ELSE prune_messages
RECURSIVE prune_loop(_, _)
prune_loop(prune_messages, budget) ==
  IF get_num_tokens(prune_messages) > budget
    THEN prune_loop(Tail(prune_messages), budget)
    ELSE prune_messages

\* the number of `prune_messages.pop(0)` calls the while loop makes (line
\* 108): one for every turn whose token count exceeds the budget; the loop
\* has no test for an empty list, and a pop(0) on the empty list raises
\* IndexError and ends the loop
RECURSIVE pop_calls(_, _)
pop_calls(prune_messages, budget) ==
  IF get_num_tokens(prune_messages) > budget
    THEN 1 + (IF prune_messages = <<>>
                THEN 0
                ELSE pop_calls(Tail(prune_messages), budget))
    ELSE 0

\* ChatMemory.prune (lines 97-110) raises IndexError: the loop runs (llm
\* set, list not empty) and pops once more than the list has messages
prune_raises(message_list, has_llm, budget) ==
  /\ Len(message_list) >= 1
  /\ has_llm
  /\ pop_calls(message_list, budget) > Len(message_list)

\* the token budgets: max_tokens is an int of the configuration, from one
\* below the token count of the empty list up to MaxTokens
Budgets == (get_num_tokens(<<>>) - 1)..MaxTokens

\* ChatMemory.prune (lines 97-110): the list it returns when it returns
prune(message_list, has_llm, budget) ==
  IF Len(message_list) < 1
    THEN <<>>
    ELSE IF has_llm
      THEN prune_loop(message_list, budget)
      ELSE message_list

\* `prune_messages = message_list[:]` (line 102): prune pops from a copy,
\* the list it was given is as before
stored_after_pruneAliased(message_list, has_llm, budget) ==
  prune(message_list, has_llm, budget)
stored_after_prune(message_list, has_llm, budget) == message_list

\* ChatMemory.add (lines 83-87): the stored list afterwards
add(stored, message_list) ==
  IF Len(message_list) < 1 THEN stored ELSE stored \o message_list

Call(op, arg, ret) == [op |-> op, arg |-> arg, ret |-> ret]

\* a ChatMemory with or without llm and with any budget; no planner run
InitMemory ==
  /\ ResolverIdle
  /\ messages = <<>>
  /\ llm \in BOOLEAN
  /\ max_tokens \in Budgets
  /\ mem_log = <<>>
  /\ planner_config = [retry_count |-> default_retry_count,
                       jump_step |-> "expressing",
                       eval_threshold |-> default_eval_threshold,
                       expert_framework |-> [context |-> FALSE, selector |-> FALSE]]
  /\ agents = {}
  /\ agent_input = [input |-> "q1"]
  /\ memory = TRUE
  /\ input_object = [s \in Slots |-> <<>>]
  /\ planning_result = <<>>
  /\ executing_result = <<>>
  /\ expressing_result = <<>>
  /\ reviewing_result = <<>>
  /\ loopResults = <<>>
  /\ pass = 0
  /\ pc = "memory"
  /\ result = <<>>
  /\ memory_calls = <<>>
  /\ trace = <<>>
  /\ objs = 0

planner == <<planner_config, agents, agent_input, memory, resolver,
             input_object, planning_result, executing_result,
             expressing_result, reviewing_result, loopResults, pass, pc,
             result, memory_calls, trace, objs>>

\* ChatMemory.add (lines 83-87)
MemAdd ==
  /\ pc = "memory"
  /\ Len(mem_log) < MaxOps
  /\ \E message_list \in AddLists :
       /\ messages' = add(messages, message_list)
       /\ mem_log' = Append(mem_log, Call("add", message_list, <<>>))
  /\ UNCHANGED <<planner, llm, max_tokens>>

\* ChatMemory.get (lines 89-91): returns the pruned list, or the IndexError
\* of prune reaches the caller; the stored list is as before either way
MemGet ==
  /\ pc = "memory"
  /\ Len(mem_log) < MaxOps
  /\ \/ /\ ~prune_raises(messages, llm, max_tokens)
        /\ messages' = stored_after_prune(messages, llm, max_tokens)
        /\ mem_log' = Append(mem_log,
                             Call("get", <<>>, prune(messages, llm, max_tokens)))
     \/ /\ prune_raises(messages, llm, max_tokens)
        /\ messages' = messages
        /\ mem_log' = Append(mem_log, Call("raise", <<>>, <<>>))
  /\ UNCHANGED <<planner, llm, max_tokens>>

\* ChatMemory.clear (lines 93-95)
MemClear ==
  /\ pc = "memory"
  /\ Len(mem_log) < MaxOps
  /\ messages' = <<>>
  /\ mem_log' = Append(mem_log, Call("clear", <<>>, <<>>))
  /\ UNCHANGED <<planner, llm, max_tokens>>

NextMemory ==
  \/ MemAdd
  \/ MemGet
  \/ MemClear

SpecMemory == InitMemory /\ [][NextMemory]_vars

\* the suffixes of a list, by the number of messages dropped from its head
Suffix(list, dropped) == SubSeq(list, dropped + 1, Len(list))

LastCall == mem_log[Len(mem_log)]

\* C18 (as stated): get returns a suffix of the stored list, order kept:
\* messages go from the head only and only while the token count exceeds
\* max_tokens, so the result is the longest suffix within the budget; with
\* no llm, or with the whole list within the budget, the full list is
\* returned.
C18_PruneOldestFirst ==
  (mem_log # <<>> /\ LastCall.op = "get") =>
    LET ret == LastCall.ret
        dropped == Len(messages) - Len(ret)
    IN  /\ dropped >= 0
        /\ ret = Suffix(messages, dropped)
        /\ (~llm \/ get_num_tokens(messages) <= max_tokens) => ret = messages
        /\ llm =>
             /\ get_num_tokens(ret) <= max_tokens
             /\ \A d \in 0..(dropped - 1) :
                  get_num_tokens(Suffix(messages, d)) > max_tokens

\* C18 (amended): a get that returns gives a suffix of the stored list,
\* order kept; with no llm, or with the whole list within the budget, it is
\* the full list; with an llm and a stored list that is not empty it is the
\* longest suffix within the budget.  An empty stored list is returned as
\* the empty list before any token is counted (line 99), whatever the
\* budget is.
C18_LongestSuffixWithinBudget ==
  (mem_log # <<>> /\ LastCall.op = "get") =>
    LET ret == LastCall.ret
        dropped == Len(messages) - Len(ret)
    IN  /\ dropped >= 0
        /\ ret = Suffix(messages, dropped)
        /\ (~llm \/ get_num_tokens(messages) <= max_tokens) => ret = messages
        /\ messages = <<>> => ret = <<>>
        /\ (llm /\ messages # <<>>) =>
             /\ get_num_tokens(ret) <= max_tokens
             /\ \A d \in 0..(dropped - 1) :
                  get_num_tokens(Suffix(messages, d)) > max_tokens

C18_Witness ==
  /\ llm
  /\ max_tokens = 3
  /\ Len(mem_log) = 3
  /\ LastCall.op = "get"
  /\ messages = <<Message("human", <<"q1">>), Message("ai", <<"a">>),
                  Message("ai", <<"a">>), Message("human", <<"q1">>)>>
  /\ LastCall.ret = <<Message("ai", <<"a">>), Message("human", <<"q1">>)>>

\* the stored list the calls log[1..n] leave: the add arguments since the
\* last clear, in order
RECURSIVE Replay(_, _)
Replay(log, n) ==
  IF n = 0 THEN <<>>
  ELSE IF log[n].op = "clear" THEN <<>>
  ELSE IF log[n].op = "add" THEN Replay(log, n - 1) \o log[n].arg
  ELSE Replay(log, n - 1)

\* C20: get does not change the stored list, also when it returns a pruned
\* list: the stored list is always the concatenation of the add calls
\* since the last clear, evicted messages included, and two consecutive
\* get calls return the same list.
C20_GetLeavesStored ==
  /\ messages = Replay(mem_log, Len(mem_log))
  /\ \A n \in 1..Len(mem_log) :
       mem_log[n].op = "get" =>
         /\ Len(mem_log[n].ret) <= Len(Replay(mem_log, n))
         /\ Replay(mem_log, n) = Replay(mem_log, n - 1)
         /\ (n > 1 /\ mem_log[n - 1].op = "get") =>
              mem_log[n].ret = mem_log[n - 1].ret

C20_Witness ==
  /\ Len(mem_log) = 4
  /\ mem_log[1].op = "add"
  /\ mem_log[2].op = "get"
  /\ mem_log[3].op = "get"
  /\ mem_log[4].op = "add"
  /\ Len(mem_log[3].ret) = 1
  /\ Len(messages) = 4

\* C21: prune terminates normally for every stored list and every token
\* budget: the eviction loop pops at most len(message_list) messages, never
\* pops from an empty list, and get returns a (possibly empty) list
\* rather than raising.
C21_PruneTerminatesNormally ==
  /\ (llm /\ messages # <<>>) =>
       pop_calls(messages, max_tokens) <= Len(messages)
  /\ ~prune_raises(messages, llm, max_tokens)
  /\ \A n \in 1..Len(mem_log) : mem_log[n].op # "raise"

====
